---- MODULE Spec2Model ----
(***************************************************************************)
(* dc2json2dc: JSON encoding of dataclass instances (JSONDataclassEncoder) *)
(* and decoding of "__class__"-tagged JSON objects back into dataclass     *)
(* instances (AbstractJSONDataclassDecoder.object_hook, the registry built *)
(* by _build_serializable_classes_dict, JSONDataclassDecoder and           *)
(* decoder_factory), as in src/src/dc2json2dc/json.py.                     *)
(*                                                                         *)
(* One behaviour is one use of the library, as in the tests' to_json /     *)
(* from_json: json.dumps(value, cls=JSONDataclassEncoder), then a decoder  *)
(* is made from class_list, then json.loads runs on the text and calls     *)
(* object_hook on every JSON object as soon as the object is complete.     *)
(***************************************************************************)
EXTENDS Naturals, Sequences, FiniteSets

VARIABLES
    value,                  \* the Python value handed to json.dumps
    class_list,             \* the caller's class_list
    pc,                     \* "dumps", "build", "class", "loads", "scan", "done", "error"
    text,                   \* the JSON document json.dumps produced
    serializable_classes,   \* the registry: [built, items: <<name, class>> pairs]
    delegate_object_hook,   \* the object_hook keyword the caller gave, or "none"
    stack,                  \* json.loads' open containers, innermost last
    result,                 \* what json.loads returned
    error,                  \* the exception that ended the run
    trace                   \* one entry per object_hook call, in call order

vars == <<value, class_list, pc, text, serializable_classes,
          delegate_object_hook, stack, result, error, trace>>

----------------------------------------------------------------------------
(* Bounds of the model.                                                    *)

\* Containers nested in the value handed to json.dumps.
MaxDepth == 2
\* Length of class_list.
MaxClasses == 2

----------------------------------------------------------------------------
(* Values.  Every Python and JSON value is a record with a kind k.         *)
(* JSON documents use the kinds null, str, list and dict only.             *)

None == [k |-> "null"]
Str(s) == [k |-> "str", s |-> s]
\* a list
List(xs) == [k |-> "list", items |-> xs]
\* an Iterable that json does not serialize itself (a deque, a set, ...)
Iter(xs) == [k |-> "iter", items |-> xs]
\* a dict: <<key, value>> pairs in insertion order, keys distinct
Dict(ps) == [k |-> "dict", items |-> ps]
\* a Mapping that is not a dict (a MappingProxyType, ...)
Mapping(ps) == [k |-> "mapping", items |-> ps]
\* a dataclass instance: its class and one <<name, value>> pair per field
Rec(c, ps) == [k |-> "rec", cls |-> c, items |-> ps]
\* an object json cannot serialize
Opaque == [k |-> "opaque"]
\* a raised exception
Err(exc, kind, arg, where) ==
    [k |-> "err", exc |-> exc, kind |-> kind, arg |-> arg, where |-> where]
NoError == [k |-> "ok"]

TAG == "__class__"

Range(s) == {s[i] : i \in 1..Len(s)}
Keys(ps) == [i \in 1..Len(ps) |-> ps[i][1]]
HasKey(ps, key) == \E i \in 1..Len(ps) : ps[i][1] = key
Get(ps, key) == ps[CHOOSE i \in 1..Len(ps) : ps[i][1] = key][2]
Without(ps, key) == SelectSeq(ps, LAMBDA p : p[1] # key)

----------------------------------------------------------------------------
(* The classes the caller knows.  A is the tests' self-referencing         *)
(* dataclass with one more field declared init=False; A2 is another        *)
(* dataclass that is also named "A" and declares an InitVar without a      *)
(* default; N is a class that is not a dataclass.                          *)

Classes == {"A", "A2", "N"}

ClassName(c) == IF c = "N" THEN "N" ELSE "A"

IsDataclass(c) == c # "N"

Field(n, i) == [name |-> n, init |-> i]

\* dataclasses.fields(cls), in declaration order
DataclassFields(c) ==
    CASE c = "A"  -> <<Field("id", TRUE), Field("memo", FALSE), Field("ref", TRUE)>>
      [] c = "A2" -> <<Field("id", TRUE)>>
      [] OTHER    -> <<>>

\* the class declares an InitVar without a default value
HasRequiredInitVar(c) == c = "A2"

\* InitFields without its "if f.init"
InitFieldsAll(c) == DataclassFields(c)

\* [f for f in dataclasses.fields(cls) if f.init]
InitFields(c) == SelectSeq(DataclassFields(c), LAMBDA f : f.init)

\* cls(**kwargs): the init fields from kwargs, the others at their default
Construct(c, kwargs) ==
    Rec(c, [i \in 1..Len(DataclassFields(c)) |->
              LET f == DataclassFields(c)[i] IN
              <<f.name, IF f.init THEN Get(kwargs, f.name) ELSE None>>])

----------------------------------------------------------------------------
(* JSONDataclassEncoder.                                                   *)

\* Default without the "__class__" entry
DefaultNoTag(obj) ==
    IF obj.k = "rec" THEN
        LET cls_flds == InitFields(obj.cls) IN
        Dict([i \in 1..Len(cls_flds) |->
                <<cls_flds[i].name, Get(obj.items, cls_flds[i].name)>>])
    ELSE IF obj.k = "mapping" THEN Dict(obj.items)
    ELSE IF obj.k = "iter" THEN List(obj.items)
    ELSE Err("TypeError", "NotSerializable", <<obj.k>>, "dumps")

\* JSONDataclassEncoder.default(obj): called by json for a value it does
\* not serialize itself
Default(obj) ==
    IF obj.k = "rec" THEN
        LET cls_flds == InitFields(obj.cls) IN
        Dict(<< <<TAG, Str(ClassName(obj.cls))>> >> \o
             [i \in 1..Len(cls_flds) |->
                <<cls_flds[i].name, Get(obj.items, cls_flds[i].name)>>])
    ELSE IF obj.k = "mapping" THEN Dict(obj.items)
    ELSE IF obj.k = "iter" THEN List(obj.items)
    ELSE Err("TypeError", "NotSerializable", <<obj.k>>, "dumps")

IsErr(v) == v.k = "err"

FirstErr(xs) == xs[CHOOSE i \in 1..Len(xs) :
                      /\ IsErr(xs[i])
                      /\ \A j \in 1..(i-1) : ~IsErr(xs[j])]

RECURSIVE Encode(_)
\* json.dumps(v, cls=JSONDataclassEncoder), as a JSON document
Encode(v) ==
    IF v.k \in {"null", "str"} THEN v
    ELSE IF v.k = "list" THEN
        LET xs == [i \in 1..Len(v.items) |-> Encode(v.items[i])] IN
        IF \E i \in 1..Len(xs) : IsErr(xs[i]) THEN FirstErr(xs) ELSE List(xs)
    ELSE IF v.k = "dict" THEN
        LET xs == [i \in 1..Len(v.items) |-> Encode(v.items[i][2])] IN
        IF \E i \in 1..Len(xs) : IsErr(xs[i]) THEN FirstErr(xs)
        ELSE Dict([i \in 1..Len(xs) |-> <<v.items[i][1], xs[i]>>])
    ELSE
        LET d == Default(v) IN
        IF IsErr(d) THEN d ELSE Encode(d)

----------------------------------------------------------------------------
(* The registry.                                                           *)

Unbuilt == [k |-> "registry", built |-> FALSE, items |-> <<>>]
Registry(ps) == [k |-> "registry", built |-> TRUE, items |-> ps]

RECURSIVE BuildFrom(_, _, _, _)
BuildFrom(cl, i, res, where) ==
    IF i > Len(cl) THEN Registry(res)
    ELSE IF HasKey(res, ClassName(cl[i])) THEN
        Err("ValueError", "DuplicateName", <<ClassName(cl[i])>>, where)
    ELSE IF ~IsDataclass(cl[i]) THEN
        Err("TypeError", "NotADataclass", <<ClassName(cl[i])>>, where)
    ELSE BuildFrom(cl, i + 1, Append(res, <<ClassName(cl[i]), cl[i]>>), where)

RECURSIVE BuildOverwriting(_, _, _, _)
\* BuildFrom without its duplicate-name check: a later class replaces an
\* earlier one of the same name
BuildOverwriting(cl, i, res, where) ==
    IF i > Len(cl) THEN Registry(res)
    ELSE IF ~IsDataclass(cl[i]) THEN
        Err("TypeError", "NotADataclass", <<ClassName(cl[i])>>, where)
    ELSE BuildOverwriting(cl, i + 1,
                          Append(Without(res, ClassName(cl[i])),
                                 <<ClassName(cl[i]), cl[i]>>), where)

\* _build_serializable_classes_dict without the duplicate-name check
BuildWithoutDuplicateCheck(cl, where) == BuildOverwriting(cl, 1, <<>>, where)

\* _build_serializable_classes_dict(class_list)
BuildSerializableClassesDict(cl, where) == BuildFrom(cl, 1, <<>>, where)

----------------------------------------------------------------------------
(* AbstractJSONDataclassDecoder.object_hook.                               *)

Hooks == {"none", "same", "copy", "replace"}

\* The caller's object_hook applied to obj: "same" returns obj itself,
\* "copy" returns a new dict equal to obj, "replace" returns another value.
Delegate(hook, obj) ==
    CASE hook = "copy"    -> [same |-> FALSE, val |-> obj]
      [] hook = "replace" -> [same |-> FALSE, val |-> Str("hooked")]
      [] OTHER            -> [same |-> TRUE, val |-> obj]

\* _sentinel = object()
Sentinel == [k |-> "sentinel"]

\* PopTag with None as the default: obj.pop("__class__", None)
PopTagDefaultNone(obj) ==
    IF HasKey(obj.items, TAG) THEN Get(obj.items, TAG) ELSE None

\* obj.pop("__class__", _sentinel): the value popped
PopTag(obj) == IF HasKey(obj.items, TAG) THEN Get(obj.items, TAG) ELSE Sentinel

\* type(classname) is str
IsStr(classname) == classname.k = "str"

\* type(classname).__name__
TypeName(v) ==
    CASE v.k = "null" -> "NoneType"
      [] v.k = "str"  -> "str"
      [] v.k = "rec"  -> ClassName(v.cls)
      [] OTHER        -> v.k

\* InvalidClassNameError raising TypeError
InvalidClassNameTypeError(classname) ==
    Err("TypeError", "InvalidClassNameType", <<TypeName(classname)>>, "object_hook")

\* raise ValueError("Invalid type for class name (__class__): ...")
InvalidClassNameError(classname) ==
    Err("ValueError", "InvalidClassNameType", <<TypeName(classname)>>, "object_hook")

\* raise TypeError("Class ... not registered for deserialization.")
NotRegisteredError(name) ==
    Err("TypeError", "NotRegistered", <<name>>, "object_hook")

\* LookupClass falling back on the dataclass named name that the program
\* knows, registered or not
LookupClassAnywhere(reg, name) ==
    IF HasKey(reg.items, name) THEN Get(reg.items, name)
    ELSE IF name = "A" THEN "A" ELSE ""

\* self.serializable_classes.get(classname, None); "" stands for None
LookupClass(reg, name) ==
    IF HasKey(reg.items, name) THEN Get(reg.items, name) ELSE ""

\* FirstMissing reporting the last absent field instead of the first
LastMissing(flds, ps) ==
    flds[CHOOSE i \in 1..Len(flds) :
            /\ ~HasKey(ps, flds[i].name)
            /\ \A j \in (i+1)..Len(flds) : HasKey(ps, flds[j].name)].name

\* the field whose obj.pop(fld.name, _sentinel) first finds nothing
FirstMissing(flds, ps) ==
    flds[CHOOSE i \in 1..Len(flds) :
            /\ ~HasKey(ps, flds[i].name)
            /\ \A j \in 1..(i-1) : HasKey(ps, flds[j].name)].name

\* Leftover when the "if obj:" check is forgotten
LeftoverIgnored(rest, names) == <<>>

\* what is left of obj once the tag and the fields are popped
Leftover(rest, names) == SelectSeq(rest, LAMBDA p : p[1] \notin names)

Call(out, looked, delegated) ==
    [out |-> out, looked |-> looked, delegated |-> delegated]

\* object_hook from "classname = obj.pop(...)" on; looked says whether
\* serializable_classes.get was reached
Resolve(reg, obj, delegated) ==
    LET classname == PopTag(obj)
        rest == Without(obj.items, TAG)
    IN
    IF classname = Sentinel THEN Call(obj, FALSE, delegated)
    ELSE IF ~IsStr(classname) THEN
        Call(InvalidClassNameError(classname), FALSE, delegated)
    ELSE
    LET cls == LookupClass(reg, classname.s) IN
    IF cls = "" THEN Call(NotRegisteredError(classname.s), TRUE, delegated)
    ELSE
    LET cls_flds == InitFields(cls)
        names == {cls_flds[i].name : i \in 1..Len(cls_flds)}
        kwargs == SelectSeq(rest, LAMBDA p : p[1] \in names)
        left == Leftover(rest, names)
    IN
    IF \E i \in 1..Len(cls_flds) : ~HasKey(rest, cls_flds[i].name) THEN
        Call(Err("ValueError", "FieldNotSpecified",
                 <<FirstMissing(cls_flds, rest), classname.s>>, "object_hook"),
             TRUE, delegated)
    ELSE IF left # <<>> THEN
        Call(Err("ValueError", "ExtraneousValues",
                 <<classname.s>> \o Keys(left), "object_hook"), TRUE, delegated)
    ELSE IF HasRequiredInitVar(cls) THEN
        Call(Err("ValueError", "InstantiationFailed", <<ClassName(cls)>>,
                 "object_hook"), TRUE, delegated)
    ELSE Call(Construct(cls, kwargs), TRUE, delegated)

\* ObjectHook comparing the hook's result by value ("!=") instead of by
\* identity ("is not")
ObjectHookByEquality(hook, reg, obj) ==
    IF hook # "none" /\ Delegate(hook, obj).val # obj
    THEN Call(Delegate(hook, obj).val, FALSE, TRUE)
    ELSE Resolve(reg, obj, hook # "none")

\* AbstractJSONDataclassDecoder.object_hook(obj)
ObjectHook(hook, reg, obj) ==
    IF hook # "none" /\ ~Delegate(hook, obj).same
    THEN Call(Delegate(hook, obj).val, FALSE, TRUE)
    ELSE Resolve(reg, obj, hook # "none")

\* EndObject when the hook is applied to the outermost object only
EndObjectOutermostOnly(hook, reg, obj, depth) ==
    IF depth = 1 THEN ObjectHook(hook, reg, obj) ELSE Call(obj, FALSE, FALSE)

\* json's scanner, made with object_hook=self.object_hook, at the end of
\* an object nested depth deep
EndObject(hook, reg, obj, depth) == ObjectHook(hook, reg, obj)

----------------------------------------------------------------------------
(* json.loads: the scanner, as a stack of open containers.                 *)

IsContainer(v) == v.k \in {"list", "dict"}

Child(f) == IF f.node.k = "dict" THEN f.node.items[f.idx][2] ELSE f.node.items[f.idx]

\* the value v of the frame's next child is complete
Put(f, v) ==
    [f EXCEPT !.idx = f.idx + 1,
              !.acc = Append(f.acc, IF f.node.k = "dict"
                                    THEN <<f.node.items[f.idx][1], v>> ELSE v)]

RECURSIVE Scan(_)
\* read on in the frame up to its next child that is a container, or its end
Scan(f) ==
    IF f.idx <= Len(f.node.items) /\ ~IsContainer(Child(f))
    THEN Scan(Put(f, Child(f)))
    ELSE f

Frame(node) == Scan([node |-> node, idx |-> 1, acc |-> <<>>])

Top == stack[Len(stack)]
Complete(f) == f.idx > Len(f.node.items)

\* the innermost open container is complete with value v
Deliver(v) ==
    IF Len(stack) = 1
    THEN /\ stack' = <<>>
         /\ result' = v
         /\ pc' = "done"
    ELSE /\ stack' = Append(SubSeq(stack, 1, Len(stack) - 2),
                            Scan(Put(stack[Len(stack) - 1], v)))
         /\ UNCHANGED result
         /\ pc' = "scan"

----------------------------------------------------------------------------
(* The inputs.                                                             *)

Leaves == {None, Str("1"), Opaque}

\* the containers holding c
Wrap(c) ==
    { List(<<c>>),
      Iter(<<c>>),
      Dict(<< <<"k", c>> >>),
      Mapping(<< <<"k", c>> >>),
      Rec("A", << <<"id", Str("1")>>, <<"memo", Str("1")>>, <<"ref", c>> >>),
      Rec("A", << <<"id", Str("1")>>, <<"memo", None>>, <<"ref", List(<<c>>)>> >>),
      Rec("A", << <<"id", c>>, <<"memo", None>>,
                  <<"ref", Dict(<< <<"k", c>> >>)>> >>),
      Rec("A2", << <<"id", c>> >>),
      Dict(<< <<"ref", c>>, <<"id", Str("1")>>, <<TAG, Str("A")>> >>),
      Dict(<< <<TAG, c>>, <<"id", Str("1")>>, <<"ref", None>> >>),
      Dict(<< <<TAG, Str("A")>>, <<"zz", c>> >>),
      Dict(<< <<TAG, Str("A")>>, <<"id", c>> >>),
      Dict(<< <<TAG, Str("A")>>, <<"id", Str("1")>>, <<"ref", c>>,
              <<"zz", None>>, <<"k", None>> >>),
      Dict(<< <<TAG, Str("A")>>, <<"id", Str("1")>>, <<"memo", None>>,
              <<"ref", c>> >>) }

RECURSIVE Values(_)
Values(d) ==
    IF d = 0 THEN Leaves
    ELSE LET P == Values(d - 1) IN P \cup UNION {Wrap(c) : c \in P}

RECURSIVE SeqsUpTo(_, _)
SeqsUpTo(S, n) ==
    IF n = 0 THEN {<<>>}
    ELSE LET P == SeqsUpTo(S, n - 1) IN
         P \cup {Append(s, x) : s \in P, x \in S}

----------------------------------------------------------------------------
(* The run.                                                                *)

Init ==
    /\ value \in Values(MaxDepth)
    /\ class_list \in SeqsUpTo(Classes, MaxClasses)
    /\ pc = "dumps"
    /\ text = None
    /\ serializable_classes = Unbuilt
    /\ delegate_object_hook = "none"
    /\ stack = <<>>
    /\ result = None
    /\ error = NoError
    /\ trace = <<>>

Raise(e) ==
    /\ pc' = "error"
    /\ error' = e

\* json.dumps(value, cls=JSONDataclassEncoder)
Dumps ==
    /\ pc = "dumps"
    /\ LET e == Encode(value) IN
       IF IsErr(e)
       THEN /\ Raise(e)
            /\ UNCHANGED text
       ELSE /\ text' = e
            /\ pc' = "build"
            /\ UNCHANGED error
    /\ UNCHANGED <<value, class_list, serializable_classes,
                   delegate_object_hook, stack, result, trace>>

\* JSONDataclassDecoder(class_list=class_list, object_hook=hook)
JSONDataclassDecoderInit ==
    /\ pc = "build"
    /\ \E hook \in Hooks :
         LET b == BuildSerializableClassesDict(class_list, "JSONDataclassDecoder") IN
         IF IsErr(b)
         THEN /\ Raise(b)
              /\ UNCHANGED <<serializable_classes, delegate_object_hook>>
         ELSE /\ serializable_classes' = b
              /\ delegate_object_hook' = hook
              /\ pc' = "loads"
              /\ UNCHANGED error
    /\ UNCHANGED <<value, class_list, text, stack, result, trace>>

\* decoder_factory(name, class_list)
DecoderFactory ==
    /\ pc = "build"
    /\ LET b == BuildSerializableClassesDict(class_list, "decoder_factory") IN
       IF IsErr(b)
       THEN /\ Raise(b)
            /\ UNCHANGED serializable_classes
       ELSE /\ serializable_classes' = b
            /\ pc' = "class"
            /\ UNCHANGED error
    /\ UNCHANGED <<value, class_list, text, delegate_object_hook, stack,
                   result, trace>>

\* AbstractJSONDataclassDecoder.__init__ of the class decoder_factory made
AbstractInit ==
    /\ pc = "class"
    /\ \E hook \in Hooks : delegate_object_hook' = hook
    /\ pc' = "loads"
    /\ UNCHANGED <<value, class_list, text, serializable_classes, stack,
                   result, error, trace>>

\* json.loads begins on the text
LoadsStart ==
    /\ pc = "loads"
    /\ IF IsContainer(text)
       THEN /\ stack' = <<Frame(text)>>
            /\ pc' = "scan"
            /\ UNCHANGED result
       ELSE /\ result' = text
            /\ pc' = "done"
            /\ UNCHANGED stack
    /\ UNCHANGED <<value, class_list, text, serializable_classes,
                   delegate_object_hook, error, trace>>

\* the scanner enters a nested array or object
Open ==
    /\ pc = "scan"
    /\ ~Complete(Top)
    /\ stack' = Append(stack, Frame(Child(Top)))
    /\ UNCHANGED <<value, class_list, pc, text, serializable_classes,
                   delegate_object_hook, result, error, trace>>

\* the scanner reaches the end of an array
CloseArray ==
    /\ pc = "scan"
    /\ Complete(Top)
    /\ Top.node.k = "list"
    /\ Deliver(List(Top.acc))
    /\ UNCHANGED <<value, class_list, text, serializable_classes,
                   delegate_object_hook, error, trace>>

\* the scanner reaches the end of an object and calls object_hook on it
CloseObject ==
    /\ pc = "scan"
    /\ Complete(Top)
    /\ Top.node.k = "dict"
    /\ LET obj == Dict(Top.acc)
           call == EndObject(delegate_object_hook, serializable_classes, obj,
                             Len(stack))
       IN
       /\ trace' = Append(trace, [obj |-> obj, depth |-> Len(stack),
                                  out |-> call.out, looked |-> call.looked,
                                  delegated |-> call.delegated])
       /\ IF IsErr(call.out)
          THEN /\ Raise(call.out)
               /\ UNCHANGED <<stack, result>>
          ELSE /\ Deliver(call.out)
               /\ UNCHANGED error
    /\ UNCHANGED <<value, class_list, text, serializable_classes,
                   delegate_object_hook>>

Next ==
    \/ Dumps
    \/ JSONDataclassDecoderInit
    \/ DecoderFactory
    \/ AbstractInit
    \/ LoadsStart
    \/ Open
    \/ CloseArray
    \/ CloseObject

Spec == Init /\ [][Next]_vars

----------------------------------------------------------------------------
(* Vocabulary of the properties.                                           *)

\* no delegate hook is configured, or it returns every object itself
Passthrough == delegate_object_hook \in {"none", "same"}

\* registry resolution ran on the object of trace entry e: no delegate hook
\* was configured, or it returned the object itself
Proceeded(e) ==
    delegate_object_hook = "none" \/ Delegate(delegate_object_hook, e.obj).same

Entries == {trace[i] : i \in 1..Len(trace)}

\* the object carries a tag that is a string
StrTagged(obj) == HasKey(obj.items, TAG) /\ Get(obj.items, TAG).k = "str"

\* the string tag of obj is a key of the registry
Registered(obj) ==
    \E i \in 1..Len(serializable_classes.items) :
        serializable_classes.items[i][1] = Get(obj.items, TAG).s

\* the class the registry holds for the tag of obj
ClassOf(obj) ==
    serializable_classes.items[
        CHOOSE i \in 1..Len(serializable_classes.items) :
            serializable_classes.items[i][1] = Get(obj.items, TAG).s][2]

\* the names of the participating fields of class c, from its declaration
Participating(c) ==
    {DataclassFields(c)[i].name :
        i \in {j \in 1..Len(DataclassFields(c)) : DataclassFields(c)[j].init}}

\* the keys of obj other than the tag
FieldKeys(obj) == {obj.items[i][1] : i \in 1..Len(obj.items)} \ {TAG}

\* the decode ended with the exception e raised by the last object_hook call
AbortedBy(e) ==
    /\ pc = "error"
    /\ error = e.out
    /\ trace[Len(trace)] = e

RECURSIVE Parts(_)
\* v and every value nested in it
Parts(v) ==
    {v} \cup
    (IF v.k \in {"list", "iter"}
     THEN UNION {Parts(v.items[i]) : i \in 1..Len(v.items)}
     ELSE IF v.k \in {"dict", "mapping", "rec"}
     THEN UNION {Parts(v.items[i][2]) : i \in 1..Len(v.items)}
     ELSE {})

IsTaggedDict(v) == v.k = "dict" /\ HasKey(v.items, TAG)

----------------------------------------------------------------------------
(* C3: the encoding of a dataclass instance.                               *)

\* the entries json.dumps must emit for the instance v: the tag, then the
\* init=True fields in declaration order
ExpectedEntries(v) ==
    LET flds == DataclassFields(v.cls)
        idx == {j \in 1..Len(flds) : flds[j].init}
        F[i \in 0..Len(flds)] ==
            IF i = 0 THEN <<>>
            ELSE IF i \in idx
                 THEN Append(F[i-1], <<flds[i].name,
                                       Encode(Get(v.items, flds[i].name))>>)
                 ELSE F[i-1]
    IN << <<TAG, Str(ClassName(v.cls))>> >> \o F[Len(flds)]

\* C3: once json.dumps has encoded a dataclass instance, the text is a JSON
\* object whose first entry is "__class__" mapped to the class name,
\* followed by exactly one entry per init=True field, in declaration order,
\* mapped to the encoding of the field's value; an init=False field has no
\* entry.
C3_EncodedRecord ==
    (value.k = "rec" /\ pc # "dumps" /\ ~(pc = "error" /\ error.where = "dumps"))
    => /\ text.k = "dict"
       /\ text.items = ExpectedEntries(value)
       /\ Len(text.items) = 1 + Cardinality(Participating(value.cls))
       /\ \A i \in 1..Len(DataclassFields(value.cls)) :
            ~DataclassFields(value.cls)[i].init
            => ~HasKey(text.items, DataclassFields(value.cls)[i].name)

\* an instance of A, which has an init=False field, has been encoded
C3_Witness ==
    /\ value.k = "rec"
    /\ value.cls = "A"
    /\ Get(value.items, "ref").k = "list"
    /\ pc = "build"
    /\ Keys(text.items) = <<TAG, "id", "ref">>

----------------------------------------------------------------------------
(* C4: a missing field.                                                    *)

\* the first participating field of class c, in declaration order, that
\* obj has no key for
FirstAbsent(c, obj) ==
    LET flds == DataclassFields(c)
        i == CHOOSE j \in 1..Len(flds) :
                /\ flds[j].init /\ flds[j].name \notin FieldKeys(obj)
                /\ \A h \in 1..(j-1) :
                     flds[h].init => flds[h].name \in FieldKeys(obj)
    IN flds[i].name

LacksField(e) ==
    /\ Proceeded(e)
    /\ StrTagged(e.obj)
    /\ Registered(e.obj)
    /\ ~(Participating(ClassOf(e.obj)) \subseteq FieldKeys(e.obj))

\* C4: when registry resolution runs on an object whose tag names a
\* registered class and which lacks the key of a participating field, the
\* decode fails with the missing-field error (ValueError "Field ... not
\* specified for class ...") naming the first such field in declaration
\* order, and no instance is constructed from the object.
C4_MissingField ==
    \A e \in Entries :
        LacksField(e)
        => /\ e.out.k = "err"
           /\ e.out.exc = "ValueError"
           /\ e.out.kind = "FieldNotSpecified"
           /\ e.out.arg = <<FirstAbsent(ClassOf(e.obj), e.obj),
                            Get(e.obj.items, TAG).s>>
           /\ AbortedBy(e)

\* an object tagged "A" with neither id nor ref was resolved against A
C4_Witness ==
    \E e \in Entries :
        /\ LacksField(e)
        /\ ClassOf(e.obj) = "A"
        /\ FieldKeys(e.obj) \cap {"id", "ref"} = {}
        /\ pc = "error"

----------------------------------------------------------------------------
(* C5: extraneous fields.                                                  *)

\* the keys of obj that are neither the tag nor a participating field of
\* class c, in the order obj holds them
LeftoverKeys(c, obj) ==
    LET ks == Keys(obj.items) IN
    SelectSeq(ks, LAMBDA key : key # TAG /\ key \notin Participating(c))

HasExtra(e) ==
    /\ Proceeded(e)
    /\ StrTagged(e.obj)
    /\ Registered(e.obj)
    /\ Participating(ClassOf(e.obj)) \subseteq FieldKeys(e.obj)
    /\ FieldKeys(e.obj) # Participating(ClassOf(e.obj))

\* C5: when registry resolution runs on an object that has every
\* participating field of its class and other keys besides, the decode
\* fails with the extraneous-field error (ValueError "Extraneous values
\* specified for dataclass ...") listing every leftover key; an instance
\* is constructed only from an object whose keys other than the tag are
\* exactly the participating field names of its class.
C5_ExtraneousField ==
    \A e \in Entries :
        /\ HasExtra(e)
           => /\ e.out.k = "err"
              /\ e.out.exc = "ValueError"
              /\ e.out.kind = "ExtraneousValues"
              /\ e.out.arg = <<Get(e.obj.items, TAG).s>>
                             \o LeftoverKeys(ClassOf(e.obj), e.obj)
              /\ AbortedBy(e)
        /\ e.out.k = "rec"
           => /\ StrTagged(e.obj)
              /\ FieldKeys(e.obj) = Participating(e.out.cls)

\* an object tagged "A" with id, ref and two more keys was resolved
C5_Witness ==
    \E e \in Entries :
        /\ HasExtra(e)
        /\ ClassOf(e.obj) = "A"
        /\ Len(LeftoverKeys("A", e.obj)) = 2
        /\ pc = "error"

----------------------------------------------------------------------------
(* C6: an unregistered type.                                               *)

Unregistered(e) ==
    /\ Proceeded(e)
    /\ StrTagged(e.obj)
    /\ ~Registered(e.obj)

\* C6: when registry resolution runs on an object whose tag is a string
\* that is no key of the registry, the decode fails with the
\* unregistered-type error (TypeError "Class ... not registered for
\* deserialization."); every instance the decode constructs is of a class
\* of the caller's class_list.
C6_UnregisteredType ==
    /\ \A e \in Entries :
        /\ Unregistered(e)
           => /\ e.out.k = "err"
              /\ e.out.exc = "TypeError"
              /\ e.out.kind = "NotRegistered"
              /\ e.out.arg = <<Get(e.obj.items, TAG).s>>
              /\ AbortedBy(e)
        /\ e.out.k = "rec" => e.out.cls \in Range(class_list)
    /\ \A v \in Parts(result) : v.k = "rec" => v.cls \in Range(class_list)

\* an object tagged "A" was resolved against a registry that holds no "A"
C6_Witness ==
    \E e \in Entries :
        /\ Unregistered(e)
        /\ Get(e.obj.items, TAG).s = "A"
        /\ class_list = <<>>
        /\ pc = "error"

----------------------------------------------------------------------------
(* C7: duplicate registration.                                             *)

\* a registry build has been attempted
BuildAttempted ==
    \/ pc \in {"class", "loads", "scan", "done"}
    \/ pc = "error" /\ error.where # "dumps"

\* two entries of class_list share a name, and every entry up to the second
\* of them is a dataclass
NameCollision ==
    \E j \in 1..Len(class_list) :
        /\ \E i \in 1..(j-1) : ClassName(class_list[i]) = ClassName(class_list[j])
        /\ \A i \in 1..j : IsDataclass(class_list[i])

----------------------------------------------------------------------------
(* C8: the delegate hook has priority.                                     *)

\* C8: with a delegate hook configured, object_hook applies it first to
\* every parsed object; when it returns another object than the one it was
\* given (even an equal one), that value is the result, the registry is not
\* consulted and no error is raised for the object, tagged or not; when it
\* returns the object itself, the result is the one object_hook gives with
\* no hook configured.
C8_DelegatePriority ==
    \A e \in Entries :
        /\ e.delegated = (delegate_object_hook # "none")
        /\ (delegate_object_hook # "none"
            /\ ~Delegate(delegate_object_hook, e.obj).same)
           => /\ e.out = Delegate(delegate_object_hook, e.obj).val
              /\ ~e.looked
              /\ pc # "error"
        /\ (delegate_object_hook # "none"
            /\ Delegate(delegate_object_hook, e.obj).same)
           => /\ e.out = ObjectHook("none", serializable_classes, e.obj).out
              /\ e.looked = ObjectHook("none", serializable_classes, e.obj).looked

\* a hook returned an equal copy of an object tagged with a registered
\* class, and the decode ended with the copy in place of an instance
C8_Witness ==
    /\ delegate_object_hook = "copy"
    /\ pc = "done"
    /\ \E e \in Entries :
        /\ StrTagged(e.obj)
        /\ Registered(e.obj)
        /\ e.out = e.obj
        /\ e.out \in Parts(result)

----------------------------------------------------------------------------
(* C9: text without tags.                                                  *)

NoTags(doc) == \A v \in Parts(doc) : ~IsTaggedDict(v)

\* json.loads has begun on the text
Loading == pc \in {"scan", "done"} \/ (pc = "error" /\ error.where = "object_hook")

----------------------------------------------------------------------------
(* C10: a tag that is not a string.                                        *)

NonStrTagged(e) ==
    /\ Proceeded(e)
    /\ HasKey(e.obj.items, TAG)
    /\ Get(e.obj.items, TAG).k # "str"

\* the exception object_hook raises for a string tag absent from reg
UnregisteredErrorOf(reg) ==
    ObjectHook("none", reg, Dict(<< <<TAG, Str("absent")>> >>)).out

\* C10 as stated: when registry resolution runs on an object whose tag is
\* not a string, the decode fails with TypeError before any registry
\* lookup, an error kind distinct from the one raised for an unregistered
\* string tag.
C10_Original ==
    \A e \in Entries :
        NonStrTagged(e)
        => /\ e.out.k = "err"
           /\ e.out.exc = "TypeError"
           /\ ~e.looked
           /\ e.out.exc # UnregisteredErrorOf(serializable_classes).exc

\* C10, amended: when registry resolution runs on an object whose tag is
\* not a string, the decode fails with ValueError ("Invalid type for class
\* name (__class__): expected str, found ...") before any registry lookup;
\* the error is of another kind than the TypeError raised for a string tag
\* absent from the registry.
C10_NonStringTag ==
    \A e \in Entries :
        NonStrTagged(e)
        => /\ e.out.k = "err"
           /\ e.out.exc = "ValueError"
           /\ e.out.kind = "InvalidClassNameType"
           /\ ~e.looked
           /\ AbortedBy(e)
           /\ UnregisteredErrorOf(serializable_classes).exc = "TypeError"
           /\ e.out.exc # UnregisteredErrorOf(serializable_classes).exc
           /\ e.out.kind # UnregisteredErrorOf(serializable_classes).kind

\* an object whose tag is a JSON array was resolved
C10_Witness ==
    \E e \in Entries :
        /\ NonStrTagged(e)
        /\ Get(e.obj.items, TAG).k = "list"
        /\ pc = "error"

----------------------------------------------------------------------------
(* C1: the round trip.                                                     *)

RECURSIVE SameOnParticipating(_, _)
\* a and b are equal, dataclass instances being compared on their
\* init=True fields only
SameOnParticipating(a, b) ==
    /\ a.k = b.k
    /\ IF a.k \in {"list", "iter"}
       THEN /\ Len(a.items) = Len(b.items)
            /\ \A i \in 1..Len(a.items) : SameOnParticipating(a.items[i], b.items[i])
       ELSE IF a.k \in {"dict", "mapping"}
       THEN /\ Keys(a.items) = Keys(b.items)
            /\ \A i \in 1..Len(a.items) :
                 SameOnParticipating(a.items[i][2], b.items[i][2])
       ELSE IF a.k = "rec"
       THEN /\ a.cls = b.cls
            /\ \A n \in Participating(a.cls) :
                 SameOnParticipating(Get(a.items, n), Get(b.items, n))
       ELSE a = b

\* every field of class c is supplied at construction or has a default
AlwaysSupplied(c) == IsDataclass(c) /\ ~HasRequiredInitVar(c)

\* the decode of the encoding of a dataclass instance has ended, with a
\* registry built from a class list that holds the instance's class and
\* with no delegate hook replacing objects
RoundTripEnded ==
    /\ value.k = "rec"
    /\ AlwaysSupplied(value.cls)
    /\ value.cls \in Range(class_list)
    /\ serializable_classes.built
    /\ Passthrough
    /\ pc \in {"done", "error"}

RoundTripHolds ==
    /\ pc = "done"
    /\ result.k = "rec"
    /\ result.cls = value.cls
    /\ SameOnParticipating(result, value)

\* C1 as stated: for any instance r of a class whose fields are always
\* supplied, decoding the encoding of r with a registry built from a class
\* list containing type(r) yields an instance of type(r) equal to r on its
\* participating fields.
C1_Original == RoundTripEnded => RoundTripHolds

RECURSIVE JsonNative(_)
\* v holds, at every depth, only None, strings, lists, dicts without a
\* "__class__" key, and instances of classes of class_list whose fields
\* are always supplied
JsonNative(v) ==
    IF v.k \in {"null", "str"} THEN TRUE
    ELSE IF v.k = "list" THEN \A i \in 1..Len(v.items) : JsonNative(v.items[i])
    ELSE IF v.k = "dict"
    THEN /\ ~HasKey(v.items, TAG)
         /\ \A i \in 1..Len(v.items) : JsonNative(v.items[i][2])
    ELSE IF v.k = "rec"
    THEN /\ AlwaysSupplied(v.cls)
         /\ v.cls \in Range(class_list)
         /\ \A n \in Participating(v.cls) : JsonNative(Get(v.items, n))
    ELSE FALSE

\* C1, amended: the round trip holds for an instance r whose participating
\* field values are, at every depth, JSON-native values (None, strings,
\* lists, dicts without a "__class__" key) or instances of always-supplied
\* classes of the class list; nested instances too are compared on their
\* participating fields.
C1_RoundTrip == (RoundTripEnded /\ JsonNative(value)) => RoundTripHolds

\* an A holding a list that holds an A made the round trip
C1_Witness ==
    /\ RoundTripEnded
    /\ JsonNative(value)
    /\ pc = "done"
    /\ Get(value.items, "ref").k = "list"
    /\ Get(value.items, "ref").items[1].k = "rec"
    /\ SameOnParticipating(result, value)

----------------------------------------------------------------------------
(* C2: nested objects are resolved first.                                  *)

RECURSIVE Resolved(_, _)
\* py is doc with every tagged object turned into an instance of the class
\* registered for its tag, innermost first, and nothing else changed
Resolved(doc, py) ==
    IF doc.k = "list"
    THEN /\ py.k = "list"
         /\ Len(py.items) = Len(doc.items)
         /\ \A i \in 1..Len(doc.items) : Resolved(doc.items[i], py.items[i])
    ELSE IF doc.k = "dict" /\ HasKey(doc.items, TAG)
    THEN /\ py.k = "rec"
         /\ Registered(doc)
         /\ py.cls = ClassOf(doc)
         /\ \A n \in Participating(py.cls) :
              /\ HasKey(doc.items, n)
              /\ Resolved(Get(doc.items, n), Get(py.items, n))
    ELSE IF doc.k = "dict"
    THEN /\ py.k = "dict"
         /\ Keys(py.items) = Keys(doc.items)
         /\ \A i \in 1..Len(doc.items) : Resolved(doc.items[i][2], py.items[i][2])
    ELSE py = doc

\* the objects and instances nested in the values of obj
Inner(obj) ==
    {v \in UNION {Parts(obj.items[i][2]) : i \in 1..Len(obj.items)} :
        v.k \in {"dict", "rec"}}

\* C2: object_hook runs on every inner object before it runs on the object
\* that contains it: every object or instance inside the object handed to
\* a call is the result of an earlier call.  So an instance is constructed
\* from field values that hold no tagged mapping at any depth (inside
\* arrays and untagged maps too), its fields are the values of the
\* object's keys as they were resolved, and with no hook replacing objects
\* the decode returns the text with every tagged object, at every depth,
\* turned into an instance and null left as null.
C2_InnermostFirst ==
    /\ \A i \in 1..Len(trace) :
        /\ \A v \in Inner(trace[i].obj) : \E j \in 1..(i-1) : trace[j].out = v
        /\ trace[i].out.k = "rec"
           => /\ \A v \in Parts(trace[i].out) : ~IsTaggedDict(v)
              /\ \A n \in Participating(trace[i].out.cls) :
                   Get(trace[i].out.items, n) = Get(trace[i].obj.items, n)
    /\ (pc = "done" /\ Passthrough) => Resolved(text, result)

\* the text {"__class__":"A","id":"1","ref":{"__class__":"A","id":"1",
\* "ref":null}} was decoded into an A whose ref is an A whose ref is None
C2_Witness ==
    /\ pc = "done"
    /\ Passthrough
    /\ text.k = "dict"
    /\ StrTagged(text)
    /\ IsTaggedDict(Get(text.items, "ref"))
    /\ result.k = "rec"
    /\ result.cls = "A"
    /\ Get(result.items, "ref").k = "rec"
    /\ Get(result.items, "ref").cls = "A"
    /\ Get(Get(result.items, "ref").items, "ref") = None
    /\ Len(trace) = 2
    /\ trace[1].out = Get(result.items, "ref")

====
